---- MODULE Spec2Model ----
(***************************************************************************)
(* Model of BiasAwareGridSearchCV (src/bias_aware_gridsearch.py): the      *)
(* cross-validated grid evaluation loop of fit, the three selection        *)
(* policies with their common retraining step, and find_optimum_model.     *)
(*                                                                         *)
(* The estimator, the fold splitter and the metrics are external           *)
(* capabilities.  Their results are inputs: every fold yields an accuracy  *)
(* and a bias drawn from Measures, or raises.  A mean is kept as the exact *)
(* fraction sum/count and compared by cross-multiplication.                *)
(***************************************************************************)
EXTENDS Integers, Sequences, FiniteSets, TLC

\* ------------------------------------------------------------------ bounds
NRows == 3        \* rows of the full dataset df
MaxRecords == 3   \* fit is not started when it could grow results_ past this

\* Fold counts given to the constructor (KFold rejects 1), the values a
\* fold-level accuracy or bias takes, and the margins tried.
FoldCounts == {1, 2}
Measures == {0, 1}
Margins == {0, 1}

\* ----------------------------------------------------- data and estimators
outcome_column == "y"
protected_attribute == "prot"

\* A data frame is known by its number of rows and its set of columns.
Frame(n, cols) == [rows |-> n, columns |-> cols]
NoFrame == Frame(0, {})
FullDataset == Frame(NRows, {"x", "prot", "y"})

\* df.drop(columns=[c]): a new frame without column c.
Drop(frame, c) == [frame EXCEPT !.columns = @ \ {c}]

\* X_train.iloc[index]: a new frame with the selected rows.
ILoc(frame, n) == [frame EXCEPT !.rows = n]

\* The training split handed to fit: some, never all, rows of the dataset,
\* without the outcome column: a single row (too few for any fold count), or
\* all rows but one.
TrainSplits == {Frame(n, {"x", "prot"}) : n \in {1, NRows - 1}}

\* The estimator capability: hyperparameters and the calls to fit it has seen.
BaseEstimator == [params |-> [C |-> 0, k |-> 0], fitted |-> <<>>]

\* sklearn.base.clone: same hyperparameters, no fitted state.
clone(est) == [params |-> est.params, fitted |-> <<>>]

\* set_params(**params) raises ValueError on a name the estimator lacks.
CanSetParams(est, params) == DOMAIN params \subseteq DOMAIN est.params

set_params(est, params) ==
    [est EXCEPT !.params = [n \in DOMAIN est.params |->
                               IF n \in DOMAIN params THEN params[n] ELSE est.params[n]]]

\* model.fit(X, y): records what the model was trained on.
FitCall(X, target) == [rows |-> X.rows, features |-> X.columns, target |-> target]

fit_model(est, X, target) == [est EXCEPT !.fitted = Append(@, FitCall(X, target))]

\* --------------------------------------------------------- ParameterGrid
\* ParameterGrid iterates the keys in sorted order, the last key fastest.
ParamNames == <<"C", "k", "z">>

AllGrids == { [C |-> <<1>>],
              [C |-> <<1, 2>>, k |-> <<3>>],
              [k |-> <<3, 4, 5>>],
              [C |-> <<1, 2>>, k |-> <<3, 4>>],
              [z |-> <<1>>] }

SortedKeys(grid) == SelectSeq(ParamNames, LAMBDA n : n \in DOMAIN grid)

RECURSIVE Concat(_)
Concat(seqs) == IF seqs = <<>> THEN <<>> ELSE Head(seqs) \o Concat(Tail(seqs))

EmptyParams == [n \in {} |-> 0]

RECURSIVE Product(_, _)
Product(grid, keys) ==
    IF keys = <<>> THEN <<EmptyParams>>
    ELSE LET rest == Product(grid, Tail(keys))
             key == Head(keys)
         IN Concat([i \in 1..Len(grid[key]) |->
                      [j \in 1..Len(rest) |-> (key :> grid[key][i]) @@ rest[j]]])

ParameterGrid(grid) == Product(grid, SortedKeys(grid))

\* The grids given to the constructor: those one fit can evaluate within
\* MaxRecords records.
Grids == {g \in AllGrids : Len(ParameterGrid(g)) <= MaxRecords}

\* ------------------------------------------------------------------ KFold
\* KFold(n_splits=cv) raises ValueError unless cv >= 2.
KFoldOk(n_splits) == n_splits >= 2

\* kf.split(X) raises ValueError when there are fewer samples than folds.
SplitOk(n_splits, n) == n >= n_splits

\* Size of the validation part of fold f (1-based): the first n % k folds
\* get one row more.
ValSize(n_splits, n, f) == (n \div n_splits) + (IF f <= n % n_splits THEN 1 ELSE 0)

\* ------------------------------------------------------------ aggregation
RECURSIVE SeqSum(_)
SeqSum(s) == IF s = <<>> THEN 0 ELSE Head(s) + SeqSum(Tail(s))

\* np.mean of a list, as the exact fraction sum/len.
mean(s) == [num |-> SeqSum(s), den |-> Len(s)]

\* Order of two means (positive denominators).
Less(a, b) == a.num * b.den < b.num * a.den
Same(a, b) == a.num * b.den = b.num * a.den

\* --------------------------------------------------- selection primitives
\* max(records, key=accuracy): Python keeps the first maximal element; it
\* replaces the running best only by a strictly greater key.
RECURSIVE ArgMaxAccuracy(_, _)
ArgMaxAccuracy(records, n) ==
    IF n = 1 THEN 1
    ELSE LET best == ArgMaxAccuracy(records, n - 1)
         IN IF Less(records[best].accuracy, records[n].accuracy) THEN n ELSE best

\* Variant: the running best is replaced also by an equal key, so the last
\* maximal element wins.
RECURSIVE ArgMaxAccuracyLast(_, _)
ArgMaxAccuracyLast(records, n) ==
    IF n = 1 THEN 1
    ELSE LET best == ArgMaxAccuracyLast(records, n - 1)
         IN IF Less(records[n].accuracy, records[best].accuracy) THEN best ELSE n

max_accuracy_last_tie(records) == records[ArgMaxAccuracyLast(records, Len(records))]

max_accuracy(records) == records[ArgMaxAccuracy(records, Len(records))]

\* min(records, key=bias): Python keeps the first minimal element.
RECURSIVE ArgMinBias(_, _)
ArgMinBias(records, n) ==
    IF n = 1 THEN 1
    ELSE LET best == ArgMinBias(records, n - 1)
         IN IF Less(records[n].bias, records[best].bias) THEN n ELSE best

\* Variant: max in place of min, the most biased record.
RECURSIVE ArgMaxBias(_, _)
ArgMaxBias(records, n) ==
    IF n = 1 THEN 1
    ELSE LET best == ArgMaxBias(records, n - 1)
         IN IF Less(records[best].bias, records[n].bias) THEN n ELSE best

max_bias(records) == records[ArgMaxBias(records, Len(records))]

min_bias(records) == records[ArgMinBias(records, Len(records))]

\* sorted(records, key=accuracy, reverse=True): a stable sort, so records of
\* equal accuracy keep their order.  Each record is inserted behind every
\* record that is not less accurate.
RECURSIVE InsertDesc(_, _)
InsertDesc(x, sorted) ==
    IF sorted = <<>> THEN <<x>>
    ELSE IF Less(Head(sorted).accuracy, x.accuracy) THEN <<x>> \o sorted
         ELSE <<Head(sorted)>> \o InsertDesc(x, Tail(sorted))

RECURSIVE SortPrefixDesc(_, _)
SortPrefixDesc(records, n) ==
    IF n = 0 THEN <<>> ELSE InsertDesc(records[n], SortPrefixDesc(records, n - 1))

Reverse(s) == [i \in 1..Len(s) |-> s[Len(s) + 1 - i]]

\* Variant: reverse=True forgotten, the stable ascending sort.
sorted_by_accuracy_asc(records) ==
    Reverse(SortPrefixDesc(Reverse(records), Len(records)))

\* Variant: sorted(...)[::-1], the ascending sort reversed, which also
\* reverses the order of records of equal accuracy.
sorted_then_reversed(records) == SortPrefixDesc(Reverse(records), Len(records))

sorted_by_accuracy_desc(records) == SortPrefixDesc(records, Len(records))

\* s[:stop] of Python: a negative stop counts from the end, and the stop is
\* clamped to the sequence.
Slice(s, stop) ==
    LET n == Len(s)
        e == IF stop < 0 THEN (IF n + stop < 0 THEN 0 ELSE n + stop)
             ELSE (IF stop > n THEN n ELSE stop)
    IN SubSeq(s, 1, e)

\* The capability calls of _retrain_model that raise as the estimator
\* decides; "none": neither does.
RetrainFailures == {"none", "clone", "fit"}

\* How _retrain_model(params) ends: "ok", or the first error on its way,
\* in the order of the calls: clone (line 117), set_params, which raises
\* ValueError on an unknown name (118), df.drop, which raises KeyError on a
\* missing outcome column, and model.fit (119).
retrain_outcome(obj, params, failure) ==
    IF failure = "clone" THEN "CapabilityError"
    ELSE IF ~CanSetParams(clone(obj.estimator), params) THEN "ValueError"
    ELSE IF outcome_column \notin obj.df.columns THEN "KeyError"
    ELSE IF failure = "fit" THEN "CapabilityError"
    ELSE "ok"

\* Variant: the outcome column is not dropped from the features.
retrain_model_keeps_outcome(obj, params, failure) ==
    LET outcome == retrain_outcome(obj, params, failure)
        fitted == fit_model(set_params(clone(obj.estimator), params),
                            obj.df, outcome_column)
    IN [outcome |-> outcome,
        model |-> IF outcome = "ok" THEN <<fitted>> ELSE <<>>,
        estimator |-> obj.estimator, df |-> obj.df]

\* _retrain_model(params) (lines 117-120): how the call ends, the model it
\* returns (none when it raises), and the estimator and the dataset the
\* object holds afterwards.  Only the clone is configured and fitted.
retrain_model(obj, params, failure) ==
    LET outcome == retrain_outcome(obj, params, failure)
        fitted == fit_model(set_params(clone(obj.estimator), params),
                            Drop(obj.df, outcome_column), outcome_column)
    IN [outcome |-> outcome,
        model |-> IF outcome = "ok" THEN <<fitted>> ELSE <<>>,
        estimator |-> obj.estimator, df |-> obj.df]

\* ------------------------------------------------------------------ state
VARIABLES
    estimator,    \* self.estimator
    param_grid,   \* self.param_grid
    df,           \* self.df
    cv,           \* self.cv
    results_,     \* self.results_
    pc,           \* "idle": no call is running; "params" (line 42) and "fold" (line 46):
                  \* the position inside fit; "returned": a call has just ended
    X_train,      \* the argument of the running fit call
    ci,           \* configurations of the grid the running fit has finished
    fi,           \* folds of the current configuration the running fit has finished
    accuracies,   \* local list of fit
    biases,       \* local list of fit
    model,        \* local of fit: the model of the latest fold, <<>> before the first
    last          \* the call that is running or has just ended, and how it ended

vars == <<estimator, param_grid, df, cv, results_, pc, X_train, ci, fi,
          accuracies, biases, model, last>>

self == [estimator |-> estimator, df |-> df]

Grid == ParameterGrid(param_grid)

\* The record of a call: the method, its argument, how it ended ("running",
\* "ok" or the error raised), the record a selection chose and called
\* _retrain_model with (<<>> when it did not get that far), the model it
\* returned and the number of records the call appended to results_.
Call(op, arg, outcome, selected, returned, appended) ==
    [op |-> op, arg |-> arg, outcome |-> outcome, selected |-> selected,
     returned |-> returned, appended |-> appended]

NoCall == Call("none", 0, "ok", <<>>, <<>>, 0)

\* __init__ (lines 23-31).
Init ==
    /\ estimator = BaseEstimator
    /\ param_grid \in Grids
    /\ df = FullDataset
    /\ cv \in FoldCounts
    /\ results_ = <<>>
    /\ pc = "idle"
    /\ X_train = NoFrame
    /\ ci = 0
    /\ fi = 0
    /\ accuracies = <<>>
    /\ biases = <<>>
    /\ model = <<>>
    /\ last = NoCall

\* The locals of fit are gone once the call has ended.
FitLocalsGone ==
    /\ X_train' = NoFrame
    /\ ci' = 0
    /\ fi' = 0
    /\ accuracies' = <<>>
    /\ biases' = <<>>
    /\ model' = <<>>

\* An exception leaves fit: results_ stays as the loop has left it.
FitRaises(error) ==
    /\ pc' = "returned"
    /\ last' = Call("fit", X_train.rows, error, <<>>, <<>>, ci)
    /\ UNCHANGED <<estimator, param_grid, df, cv, results_>>

\* fit(X_train, y_train), line 41: KFold is constructed and the loop over
\* the grid is entered.
FitEnter ==
    /\ pc = "idle"
    /\ Len(results_) + Len(Grid) <= MaxRecords
    /\ \E X \in TrainSplits :
         IF KFoldOk(cv)
         THEN /\ pc' = "params"
              /\ X_train' = X
              /\ ci' = 0
              /\ fi' = 0
              /\ accuracies' = <<>>
              /\ biases' = <<>>
              /\ model' = <<>>
              /\ last' = Call("fit", X.rows, "running", <<>>, <<>>, 0)
              /\ UNCHANGED <<estimator, param_grid, df, cv, results_>>
         ELSE /\ pc' = "returned"
              /\ last' = Call("fit", X.rows, "ValueError", <<>>, <<>>, 0)
              /\ UNCHANGED <<estimator, param_grid, df, cv, results_,
                             X_train, ci, fi, accuracies, biases, model>>

\* Variant: the accumulators are created once, before the loop over the
\* grid, and so carry over from one configuration to the next.
FitNextParamsNoReset ==
    /\ pc = "params"
    /\ ci < Len(Grid)
    /\ IF SplitOk(cv, X_train.rows)
       THEN /\ pc' = "fold"
            /\ fi' = 0
            /\ UNCHANGED <<estimator, param_grid, df, cv, results_, X_train, ci,
                           accuracies, biases, model, last>>
       ELSE /\ FitRaises("ValueError")
            /\ FitLocalsGone

\* Lines 42-46: the next configuration is taken, the accumulators are made
\* empty and the fold splitter is started on X_train.
FitNextParams ==
    /\ pc = "params"
    /\ ci < Len(Grid)
    /\ IF SplitOk(cv, X_train.rows)
       THEN /\ pc' = "fold"
            /\ fi' = 0
            /\ accuracies' = <<>>
            /\ biases' = <<>>
            /\ UNCHANGED <<estimator, param_grid, df, cv, results_, X_train, ci,
                           model, last>>
       ELSE /\ FitRaises("ValueError")
            /\ FitLocalsGone

\* The capability calls of a fold that raise as the estimator or the metric
\* decides; "none": none does.
FoldFailures == {"none", "clone", "fit", "predict", "metric"}

\* How a fold (lines 47-63) ends: "ok", or the first error on its way, in
\* the order of the calls: clone (line 50), set_params, which raises
\* ValueError on an unknown name (51), model.fit (52), model.predict (53),
\* the lookup of the protected column, which raises KeyError when X_train
\* lacks it (59), and the metric (62).
fold_outcome(est, params, X, failure) ==
    IF failure = "clone" THEN "CapabilityError"
    ELSE IF ~CanSetParams(clone(est), params) THEN "ValueError"
    ELSE IF failure \in {"fit", "predict"} THEN "CapabilityError"
    ELSE IF protected_attribute \notin X.columns THEN "KeyError"
    ELSE IF failure = "metric" THEN "CapabilityError"
    ELSE "ok"

\* Lines 47-63: one fold.  A fresh clone takes the configuration, is fitted
\* on the training part and scored on the validation part.
FitFold ==
    /\ pc = "fold"
    /\ fi < cv
    /\ fold_outcome(estimator, Grid[ci + 1], X_train, "none") = "ok"
    /\ \E accuracy \in Measures, bias \in Measures :
         LET train == ILoc(X_train, X_train.rows - ValSize(cv, X_train.rows, fi + 1))
         IN /\ model' = <<fit_model(set_params(clone(estimator), Grid[ci + 1]),
                                    train, outcome_column)>>
            /\ accuracies' = Append(accuracies, accuracy)
            /\ biases' = Append(biases, bias)
    /\ fi' = fi + 1
    /\ UNCHANGED <<estimator, param_grid, df, cv, results_, pc, X_train, ci, last>>

\* Lines 50-62: a call of the fold raises and the error leaves fit.
FitFoldRaises ==
    /\ pc = "fold"
    /\ fi < cv
    /\ \E failure \in FoldFailures :
         /\ fold_outcome(estimator, Grid[ci + 1], X_train, failure) # "ok"
         /\ FitRaises(fold_outcome(estimator, Grid[ci + 1], X_train, failure))
    /\ FitLocalsGone

\* Lines 65-72: the folds are done; the means are taken and the record of
\* the configuration is appended.
FitAppend ==
    /\ pc = "fold"
    /\ fi = cv
    /\ results_' = Append(results_, [params |-> Grid[ci + 1],
                                     accuracy |-> mean(accuracies),
                                     bias |-> mean(biases)])
    /\ ci' = ci + 1
    /\ pc' = "params"
    /\ UNCHANGED <<estimator, param_grid, df, cv, X_train, fi, accuracies,
                   biases, model, last>>

\* Line 42, grid exhausted: fit returns None.
FitReturn ==
    /\ pc = "params"
    /\ ci = Len(Grid)
    /\ pc' = "returned"
    /\ last' = Call("fit", X_train.rows, "ok", <<>>, <<>>, ci)
    /\ FitLocalsGone
    /\ UNCHANGED <<estimator, param_grid, df, cv, results_>>

\* A selection ends.  With no record to choose from, max or min raises and
\* _retrain_model is not called; otherwise _retrain_model is called with the
\* parameters of the chosen record, and the selection returns its model or
\* lets its error through.
Selected(op, arg, chosen) ==
    /\ pc' = "returned"
    /\ IF chosen = <<>>
       THEN /\ last' = Call(op, arg, "ValueError", <<>>, <<>>, 0)
            /\ UNCHANGED <<estimator, df>>
       ELSE \E failure \in RetrainFailures :
              LET r == retrain_model(self, chosen[1].params, failure)
              IN /\ last' = Call(op, arg, r.outcome, chosen, r.model, 0)
                 /\ estimator' = r.estimator
                 /\ df' = r.df

\* The record select_highest_accuracy_model chooses (line 82), <<>> when max
\* raises on an empty list.
highest_accuracy_choice(records) ==
    IF records = <<>> THEN <<>> ELSE <<max_accuracy(records)>>

\* select_highest_accuracy_model (lines 82-83).
SelectHighestAccuracy ==
    /\ pc = "idle"
    /\ Selected("highest_accuracy", 0, highest_accuracy_choice(results_))
    /\ UNCHANGED <<param_grid, cv, results_, X_train, ci, fi, accuracies,
                   biases, model>>

\* The record select_least_biased_model chooses (line 92), <<>> when min
\* raises on an empty list.
least_biased_choice(records) ==
    IF records = <<>> THEN <<>> ELSE <<min_bias(records)>>

\* select_least_biased_model (lines 92-93).
SelectLeastBiased ==
    /\ pc = "idle"
    /\ Selected("least_biased", 0, least_biased_choice(results_))
    /\ UNCHANGED <<param_grid, cv, results_, X_train, ci, fi, accuracies,
                   biases, model>>

\* The record select_balanced_model chooses (lines 104-105), <<>> when min
\* raises on an empty slice.
balanced_choice(records, threshold) ==
    LET top_accurate_models == Slice(sorted_by_accuracy_desc(records), threshold)
    IN IF top_accurate_models = <<>> THEN <<>> ELSE <<min_bias(top_accurate_models)>>

\* select_balanced_model(threshold) (lines 104-106).
SelectBalanced ==
    /\ pc = "idle"
    /\ \E threshold \in (-1)..(Len(results_) + 1) :
         Selected("balanced", threshold, balanced_choice(results_, threshold))
    /\ UNCHANGED <<param_grid, cv, results_, X_train, ci, fi, accuracies,
                   biases, model>>

\* find_optimum_model(margin) (lines 122-123): the body is pass, so the
\* call returns None.
FindOptimum ==
    /\ pc = "idle"
    /\ \E margin \in Margins : last' = Call("find_optimum", margin, "ok", <<>>, <<>>, 0)
    /\ pc' = "returned"
    /\ UNCHANGED <<estimator, param_grid, df, cv, results_, X_train, ci, fi,
                   accuracies, biases, model>>

\* The caller has taken the result or the exception of the call and is free
\* to make the next call.
Resume ==
    /\ pc = "returned"
    /\ pc' = "idle"
    /\ last' = NoCall
    /\ UNCHANGED <<estimator, param_grid, df, cv, results_, X_train, ci, fi,
                   accuracies, biases, model>>

Next ==
    \/ FitEnter
    \/ FitNextParams
    \/ FitFold
    \/ FitFoldRaises
    \/ FitAppend
    \/ FitReturn
    \/ SelectHighestAccuracy
    \/ SelectLeastBiased
    \/ SelectBalanced
    \/ FindOptimum
    \/ Resume

Spec == Init /\ [][Next]_vars

\* ----------------------------------------------------------------- claims
\* A call of the given method has just ended.
Ended(op) == pc = "returned" /\ last.op = op

N == Len(results_)

\* Size of the Cartesian product of the per-parameter value lists.
RECURSIVE ProductSize(_, _)
ProductSize(grid, names) ==
    IF names = {} THEN 1
    ELSE LET n == CHOOSE x \in names : TRUE
         IN Len(grid[n]) * ProductSize(grid, names \ {n})

CartesianSize == ProductSize(param_grid, DOMAIN param_grid)

\* The hyperparameters of a clone of the base estimator that was given params.
Applied(params) ==
    [n \in DOMAIN BaseEstimator.params |->
        IF n \in DOMAIN params THEN params[n] ELSE BaseEstimator.params[n]]

\* The single training call on the full dataset: all rows, the outcome
\* column as the target and not among the features.
FullDatasetFit ==
    [rows |-> NRows, features |-> {"x", "prot"}, target |-> "y"]

\* Position of record i in the ranking by descending accuracy, ties by
\* enumeration order: the number of records ranked before it.
Rank(i) ==
    Cardinality({j \in 1..N :
                   \/ Less(results_[i].accuracy, results_[j].accuracy)
                   \/ Same(results_[i].accuracy, results_[j].accuracy) /\ j < i})

Top(threshold) == {i \in 1..N : Rank(i) < threshold}

\* Records whose bias is the least of all.
LeastBiased == {i \in 1..N : \A j \in 1..N : ~Less(results_[j].bias, results_[i].bias)}

\* C1 (as claimed): after every completed fit, results_ holds exactly one
\* record per configuration of the grid: as many records as the Cartesian
\* product has points, no configuration twice.
C1_OneRecordPerConfiguration ==
    (Ended("fit") /\ last.outcome = "ok") =>
        /\ N = CartesianSize
        /\ \A i, j \in 1..N : i # j => results_[i].params # results_[j].params

\* C2 (as claimed): select_balanced_model with a threshold outside 1..N ends
\* in an error without calling _retrain_model, and returns no model.
C2_BadThresholdFails ==
    (Ended("balanced") /\ ~(1 <= last.arg /\ last.arg <= N)) =>
        /\ last.outcome # "ok"
        /\ last.selected = <<>>
        /\ last.returned = <<>>

\* C3 (as claimed): a fit that ended in an error has left none of its
\* records in results_.
C3_FailedFitLeavesNoRecords ==
    (Ended("fit") /\ last.outcome # "ok") => last.appended = 0

\* The call has chosen a record and called _retrain_model with its
\* parameters: it returns the model with those parameters applied, or the
\* retraining raised and it returns none.
RetrainCalled ==
    /\ Len(last.selected) = 1
    /\ last.outcome \in {"ok", "CapabilityError"}
    /\ IF last.outcome = "ok"
       THEN /\ Len(last.returned) = 1
            /\ last.returned[1].params = Applied(last.selected[1].params)
       ELSE last.returned = <<>>

\* C4 (as claimed): on non-empty results, select_balanced_model(1) chooses
\* the configuration select_highest_accuracy_model chooses, and
\* select_balanced_model(N) the configuration select_least_biased_model
\* chooses, ties included.
C4_BalancedEndsEqualOtherPolicies ==
    (Ended("balanced") /\ N >= 1) =>
        /\ last.arg = 1 =>
             /\ RetrainCalled
             /\ last.selected[1].params = highest_accuracy_choice(results_)[1].params
        /\ last.arg = N =>
             /\ RetrainCalled
             /\ last.selected[1].params = least_biased_choice(results_)[1].params

\* C4 (amended): on non-empty results, select_balanced_model(1) chooses the
\* configuration select_highest_accuracy_model chooses; select_balanced_model(N)
\* chooses a record of the same, least, bias as select_least_biased_model
\* does, and the same configuration when only one record has the least bias.
C4_BalancedEndsAmended ==
    (Ended("balanced") /\ N >= 1) =>
        /\ last.arg = 1 =>
             /\ RetrainCalled
             /\ last.selected[1].params = highest_accuracy_choice(results_)[1].params
        /\ last.arg = N =>
             /\ RetrainCalled
             /\ Same(last.selected[1].bias, least_biased_choice(results_)[1].bias)
             /\ Cardinality(LeastBiased) = 1 =>
                  last.selected[1].params = least_biased_choice(results_)[1].params

\* balanced(N) on three records of which the first and the third tie on the
\* least bias: it takes the third, the more accurate, where
\* select_least_biased_model takes the first; the bias is the same.
C4_Witness ==
    /\ Ended("balanced") /\ N = 3 /\ last.arg = N /\ last.outcome = "ok"
    /\ LeastBiased = {1, 3}
    /\ Less(results_[1].accuracy, results_[3].accuracy)
    /\ last.selected[1] = results_[3]
    /\ least_biased_choice(results_)[1] = results_[1]
    /\ results_[1].params # results_[3].params

\* C5: on non-empty results, select_highest_accuracy_model calls the
\* retraining with the configuration of the first record, in enumeration
\* order, among those of greatest accuracy; the model it returns, unless the
\* retraining raises, has that configuration.
C5_HighestAccuracyFirstMaximum ==
    (Ended("highest_accuracy") /\ N >= 1) =>
        /\ RetrainCalled
        /\ \E i \in 1..N :
             /\ last.selected[1] = results_[i]
             /\ \A j \in 1..N : ~Less(results_[i].accuracy, results_[j].accuracy)
             /\ \A j \in 1..(i - 1) : Less(results_[j].accuracy, results_[i].accuracy)

\* Two configurations tie on the greatest accuracy and the earlier was taken.
C5_Witness ==
    /\ Ended("highest_accuracy") /\ last.outcome = "ok" /\ N = 3
    /\ Less(results_[1].accuracy, results_[2].accuracy)
    /\ Same(results_[2].accuracy, results_[3].accuracy)
    /\ results_[2].params # results_[3].params
    /\ last.selected[1].params = results_[2].params

\* C6: for 1 <= threshold <= N, select_balanced_model(threshold) calls the
\* retraining with the configuration of a record of least bias among the top
\* threshold records by descending accuracy, accuracy ties ranked by
\* enumeration order; the record chosen is one of that top set, and the
\* model returned, unless the retraining raises, has its configuration.
C6_BalancedLeastBiasOfTop ==
    (Ended("balanced") /\ 1 <= last.arg /\ last.arg <= N) =>
        /\ RetrainCalled
        /\ Cardinality(Top(last.arg)) = last.arg
        /\ \E i \in Top(last.arg) :
             /\ last.selected[1] = results_[i]
             /\ \A j \in Top(last.arg) : ~Less(results_[j].bias, results_[i].bias)

\* Threshold 2 of 3 records: the second and third tie on accuracy, so the
\* third is cut off although it has the least bias of all.
C6_Witness ==
    /\ Ended("balanced") /\ last.outcome = "ok" /\ N = 3 /\ last.arg = 2
    /\ Less(results_[2].accuracy, results_[1].accuracy)
    /\ Same(results_[2].accuracy, results_[3].accuracy)
    /\ Less(results_[3].bias, results_[2].bias)
    /\ Less(results_[2].bias, results_[1].bias)
    /\ results_[2] # results_[3]
    /\ last.selected[1] = results_[2]

\* C7: on non-empty results, select_least_biased_model calls the retraining
\* with the configuration of a record whose bias no record undercuts; the
\* model returned, unless the retraining raises, has that configuration.
C7_LeastBiasedMinimum ==
    (Ended("least_biased") /\ N >= 1) =>
        /\ RetrainCalled
        /\ \E i \in LeastBiased : last.selected[1] = results_[i]

\* The least biased record is neither the first nor the most accurate.
C7_Witness ==
    /\ Ended("least_biased") /\ last.outcome = "ok" /\ N = 3
    /\ LeastBiased = {2}
    /\ Less(results_[2].accuracy, results_[1].accuracy)
    /\ last.selected[1] = results_[2]

\* C8: a selection that succeeds returns one model, a clone of the base
\* estimator with the chosen configuration applied, fitted exactly once, on
\* all rows of the dataset with the outcome column as target and not among
\* the features (so not on the smaller split given to fit); after any
\* selection, also one whose retraining raised, the base estimator and the
\* dataset are as constructed.
C8_RetrainOnFullDataset ==
    (pc = "returned" /\ last.op \in {"highest_accuracy", "least_biased", "balanced"}) =>
        /\ estimator = BaseEstimator
        /\ df = FullDataset
        /\ last.outcome = "ok" =>
             /\ Len(last.selected) = 1
             /\ Len(last.returned) = 1
             /\ last.returned[1].params = Applied(last.selected[1].params)
             /\ last.returned[1].fitted = <<FullDatasetFit>>

\* A balanced selection after a fit on the split has retrained with a
\* configuration other than the first.
C8_Witness ==
    /\ Ended("balanced") /\ last.outcome = "ok" /\ N >= 2
    /\ last.selected[1].params # results_[1].params
    /\ last.returned[1].fitted[1].rows = NRows

\* C9 (as claimed): find_optimum_model ends in NotImplementedError.
C9_FindOptimumNotImplemented ==
    Ended("find_optimum") => last.outcome = "NotImplementedError"

\* C10: inside fit the accumulators hold one accuracy and one bias for each
\* finished fold of the current configuration and nothing else; when the
\* record of a configuration has been appended it is that configuration with
\* the means of exactly cv fold accuracies and cv fold biases; the model of
\* a fold is a clone fitted once, and the base estimator is never fitted.
C10_MeansOverExactlyCvFolds ==
    /\ pc = "fold" => /\ fi <= cv
                      /\ Len(accuracies) = fi
                      /\ Len(biases) = fi
    /\ (pc = "params" /\ ci >= 1) =>
         /\ Len(accuracies) = cv
         /\ Len(biases) = cv
         /\ results_[N] = [params |-> Grid[ci],
                           accuracy |-> [num |-> SeqSum(accuracies), den |-> cv],
                           bias |-> [num |-> SeqSum(biases), den |-> cv]]
    /\ (pc \in {"fold", "params"} /\ model # <<>>) =>
         /\ Len(model[1].fitted) = 1
         /\ model[1].fitted[1].rows < X_train.rows
    /\ estimator.fitted = <<>>
    /\ \A i \in 1..N : results_[i].accuracy.den = cv /\ results_[i].bias.den = cv

\* The record of the second configuration of a grid has been appended, with
\* means that differ from those of the first.
C10_Witness ==
    /\ pc = "params" /\ ci = 2 /\ N = 2
    /\ results_[1].accuracy.num = 2 /\ results_[1].bias.num = 1
    /\ results_[2].accuracy.num = 1 /\ results_[2].bias.num = 0
    /\ accuracies = <<0, 1>>

====
